---- MODULE Spec2Model ----
(***************************************************************************)
(* Cart and order fulfilment engine of the retail backend.                 *)
(*                                                                         *)
(* The store is MongoDB: every find_one / update_one / insert_one is one   *)
(* atomic step on one document, and nothing is atomic across two calls.    *)
(* Each handler is therefore modelled as the sequence of its store calls,  *)
(* the local computation between two calls being part of the step of the   *)
(* call that precedes it.                                                  *)
(***************************************************************************)
EXTENDS Integers, Sequences, FiniteSets, TLC

\* ------------------------------------------------------------------ bounds
MaxOrders == 2      \* orders created by checkout
MaxRuns == 2        \* invocations of process_order
MaxQty == 2         \* largest quantity of an order line or a cart request
MaxItems == 2       \* largest number of lines of an order
InitStock == 2      \* stock of product 1 after seeding; product 2 holds one less
MaxCartOps == 2     \* cart_operation calls
\* The same for the specification that interleaves all handlers
JointOrders == 2
JointItems == 2
JointQty == 1
JointRuns == 2
JointCartOps == 1

ProductIds == {1, 2}
OrderIds == 1..MaxOrders
Runs == 1..MaxRuns
Users == {"u1", "u2"}
CartOps == 1..MaxCartOps

VARIABLES
    stock,      \* products collection: id -> quantity
    orders,     \* order_history collection: order_id -> document
    run,        \* process_order invocations: position and locals of each
    carts,      \* carts collection: user_identity -> items of the cart document
    cartOp,     \* cart_operation calls: position and locals of each
    checkout,   \* checkout calls: position, request and response of each
    queue,      \* order ids handed to process_order and not yet delivered
    now,        \* the server's clock, as datetime.utcnow() reads it
    history,    \* the last get_order_history call: request and response
    cartView    \* the get_cart call: position, locals and response

vars == <<stock, orders, run, carts, cartOp, checkout, queue, now, history, cartView>>

\* ------------------------------------------------------------- documents
\* OrderStatus
PENDING == "pending"
PAID == "paid"
FAILED == "failed"
COMPLETED == "completed"

\* Role
Roles == {"admin", "shop_client", "guest"}
\* role_required([Role.SHOP_CLIENT, Role.GUEST])
CheckoutRolesWithAdmin == Roles
CheckoutRoles == {"shop_client", "guest"}

\* find_one returning None
NoOrder == [status |-> "absent", items |-> <<>>, user_identity |-> "nobody",
            shipping_cost |-> 0, subtotal |-> 0, total_cost |-> 0, created_at |-> 0]

Item == [id : ProductIds, quantity : 1..MaxQty]

\* The catalog: barcode, name and price of each product (none of the handlers
\* writes them). Amounts of money are counted in thousandths of the currency
\* unit: 10000 is 10.00
BarcodeOf(p) == IF p = 1 THEN "b1" ELSE "b2"
NameOf(p) == IF p = 1 THEN "n1" ELSE "n2"
PriceOf(p) == IF p = 1 THEN 10000 ELSE 3000
Barcodes == {BarcodeOf(p) : p \in ProductIds}
UnknownBarcode == "bX"
ProductByBarcode(b) == CHOOSE p \in ProductIds : BarcodeOf(p) = b
InitStockOf(p) == IF p = 1 THEN InitStock ELSE InitStock - 1

SeqsUpTo(S, n) == UNION {[1..m -> S] : m \in 0..n}

\* Sum of the quantities of product p over the lines of items
RECURSIVE QtyOf(_, _)
QtyOf(items, p) ==
    IF items = <<>> THEN 0
    ELSE (IF Head(items).id = p THEN Head(items).quantity ELSE 0)
         + QtyOf(Tail(items), p)

\* ---------------------------------------------------------- process_order
IdleRun == [pc |-> "idle", order_id |-> 0, items |-> <<>>, i |-> 0,
            updates |-> <<>>, k |-> 0, failed |-> 0,
            result |-> [status |-> "none", message |-> "none", item |-> 0],
            stock0 |-> [p \in ProductIds |-> 0], solo |-> TRUE]

Active(r) == run[r].pc \notin {"idle", "done"}

\* The guard of the worker: the order exists and is in the paid state
IsProcessableAlsoCompleted(o) == o # NoOrder /\ o.status \in {PAID, COMPLETED}
IsProcessable(o) == o # NoOrder /\ o.status = PAID

\* The filter of the conditional decrement: {"id": id, "quantity": {"$gte": q}}
DecrementMatchesAlways(s, item) == TRUE
DecrementMatches(s, item) == s[item.id] >= item.quantity

\* {"$inc": {"quantity": -item.quantity}}
DecrementedByOne(s, item) == [s EXCEPT ![item.id] = @ - 1]
Decremented(s, item) == [s EXCEPT ![item.id] = @ - item.quantity]

\* {"$inc": {"quantity": u_item.quantity}}
ReincrementedTwice(s, u_item) == [s EXCEPT ![u_item.id] = @ + u_item.quantity + u_item.quantity]
ReincrementedByOne(s, u_item) == [s EXCEPT ![u_item.id] = @ + 1]
Reincremented(s, u_item) == [s EXCEPT ![u_item.id] = @ + u_item.quantity]

\* The status written once every item is reserved
StatusAfterReservePaid == PAID
StatusAfterReserve == COMPLETED

NotPaidResult ==
    [status |-> "failure", message |-> "Order not found or not paid.", item |-> 0]
InsufficientResult(item) ==
    [status |-> "failure", message |-> "Insufficient stock for", item |-> item.id]
SuccessResult ==
    [status |-> "success", message |-> "Inventory updated and order completed.",
     item |-> 0]

\* The next free invocation
NextRun == CHOOSE r \in Runs : run[r].pc = "idle" /\ \A q \in 1..(r-1) : run[q].pc # "idle"

\* The delivery of order_id to the task (a queued message is consumed by it; an
\* id that is not queued is a repeated delivery or a direct call), find_one on
\* the order and the guard; a run that passes the guard is in progress from
\* here on
ProcessOrderFetch(oid, limit) ==
    /\ \E r \in 1..limit : run[r].pc = "idle"
    /\ LET r == NextRun
           o == orders[oid]
       IN IF ~IsProcessable(o)
          THEN run' = [run EXCEPT ![r] = [@ EXCEPT !.pc = "done",
                                                    !.order_id = oid,
                                                    !.result = NotPaidResult]]
          ELSE run' = [q \in Runs |->
                         IF q = r
                         THEN [IdleRun EXCEPT
                                 !.pc = IF o.items = <<>> THEN "complete" ELSE "loop",
                                 !.order_id = oid,
                                 !.items = o.items,
                                 !.i = 1,
                                 !.stock0 = stock,
                                 !.solo = \A x \in Runs : ~Active(x)]
                         ELSE IF Active(q) THEN [run[q] EXCEPT !.solo = FALSE]
                         ELSE run[q]]
    /\ queue' = queue \ {oid}
    /\ UNCHANGED <<stock, orders, carts, cartOp, checkout, now, history, cartView>>

\* One iteration of the loop: the conditional decrement of items[i]
ProcessOrderDecrement(r) ==
    /\ run[r].pc = "loop"
    /\ LET item == run[r].items[run[r].i]
       IN IF DecrementMatches(stock, item)
          THEN /\ stock' = Decremented(stock, item)
               /\ run' = [run EXCEPT ![r] = [@ EXCEPT
                            !.updates = Append(@, item),
                            !.i = @ + 1,
                            !.pc = IF run[r].i = Len(run[r].items)
                                   THEN "complete" ELSE "loop"]]
          ELSE /\ stock' = stock
               /\ run' = [run EXCEPT ![r] = [@ EXCEPT !.failed = run[r].i,
                                                       !.pc = "markfailed"]]
    /\ UNCHANGED <<orders, carts, cartOp, checkout, queue, now, history, cartView>>

\* matched_count == 0: the order is marked failed, before the rollback
ProcessOrderMarkFailed(r) ==
    /\ run[r].pc = "markfailed"
    /\ orders' = [orders EXCEPT ![run[r].order_id].status = FAILED]
    /\ run' = [run EXCEPT ![r] =
                 IF run[r].updates = <<>>
                 THEN [@ EXCEPT !.pc = "done",
                                !.result = InsufficientResult(run[r].items[run[r].failed])]
                 ELSE [@ EXCEPT !.pc = "rollback", !.k = 1]]
    /\ UNCHANGED <<stock, carts, cartOp, checkout, queue, now, history, cartView>>

\* One iteration of the rollback loop; the return follows the last one
ProcessOrderRollback(r) ==
    /\ run[r].pc = "rollback"
    /\ stock' = Reincremented(stock, run[r].updates[run[r].k])
    /\ run' = [run EXCEPT ![r] =
                 IF run[r].k = Len(run[r].updates)
                 THEN [@ EXCEPT !.pc = "done", !.k = @ + 1,
                                !.result = InsufficientResult(run[r].items[run[r].failed])]
                 ELSE [@ EXCEPT !.k = @ + 1]]
    /\ UNCHANGED <<orders, carts, cartOp, checkout, queue, now, history, cartView>>

\* Every item reserved: the order is marked completed
ProcessOrderCompleteWithoutItems(r) ==
    /\ run[r].pc = "complete"
    /\ orders' = [orders EXCEPT ![run[r].order_id] =
                    [@ EXCEPT !.status = StatusAfterReserve, !.items = <<>>]]
    /\ run' = [run EXCEPT ![r] = [@ EXCEPT !.pc = "done", !.result = SuccessResult]]
    /\ UNCHANGED <<stock, carts, cartOp, checkout, queue, now, history, cartView>>

ProcessOrderComplete(r) ==
    /\ run[r].pc = "complete"
    /\ orders' = [orders EXCEPT ![run[r].order_id].status = StatusAfterReserve]
    /\ run' = [run EXCEPT ![r] = [@ EXCEPT !.pc = "done", !.result = SuccessResult]]
    /\ UNCHANGED <<stock, carts, cartOp, checkout, queue, now, history, cartView>>

\* ---------------------------------------------------------------- checkout
\* CheckoutPayload.validate_and_recalculate_totals. The amounts are the decimals
\* Decimal(str(x)) gives for the floats of the request, and sums, products and
\* differences of decimals are exact
RECURSIVE CalculatedSubtotal(_)
CalculatedSubtotal(items) ==
    IF items = <<>> THEN 0
    ELSE Head(items).price * Head(items).quantity + CalculatedSubtotal(Tail(items))

CalculatedTotal(cart_data) == CalculatedSubtotal(cart_data.items) + cart_data.shipping_cost

Abs(x) == IF x < 0 THEN -x ELSE x

\* Decimal("0.01")
Tolerance == 10

TotalsValidSubtotalOnly(cart_data) ==
    Abs(cart_data.subtotal - CalculatedSubtotal(cart_data.items)) < Tolerance
TotalsValid(cart_data) ==
    /\ Abs(cart_data.subtotal - CalculatedSubtotal(cart_data.items)) < Tolerance
    /\ Abs(cart_data.total_cost - CalculatedTotal(cart_data)) < Tolerance

\* What the payment provider's call comes to: an answer with code "00", no
\* connection, a timeout, an answer with another code (or without data), an
\* answer with a non-2xx HTTP status
Answers == {"ok", "connect_error", "timeout", "error_code", "http_status"}

\* The HTTP status of checkout's response: httpx.RequestError (no connection, a
\* timeout) is caught and turned into 503, the handler raises 503 itself on an
\* error code, and the httpx.HTTPStatusError of raise_for_status is caught by
\* nothing
StatusOfAnswerUncaught(answer) == IF answer = "ok" THEN 200 ELSE 500
StatusOfAnswer(answer) ==
    IF answer = "ok" THEN 200
    ELSE IF answer \in {"connect_error", "timeout"} THEN 503
    ELSE IF answer = "error_code" THEN 503
    ELSE 500

NoPayload == [items |-> <<>>, shipping_cost |-> 0, subtotal |-> 0, total_cost |-> 0]

Calls == 1..MaxOrders

IdleCall == [pc |-> "idle", user |-> "nobody", role |-> "none", cart_data |-> NoPayload,
             order_id |-> 0, answer |-> "none", status_code |-> 0]

NextCall == CHOOSE c \in Calls :
               checkout[c].pc = "idle" /\ \A d \in 1..(c-1) : checkout[d].pc # "idle"

\* uuid4: an id no order has
FreshOrderId == CHOOSE oid \in OrderIds :
                   orders[oid] = NoOrder /\ \A x \in 1..(oid-1) : orders[x] # NoOrder

\* The request up to the call of the payment provider: the role check of the
\* dependency (403), the validation of the body (422), the empty cart (400), the
\* insert of the pending order
Checkout(u, role, cart_data, limit) ==
    /\ \E c \in 1..limit : checkout[c].pc = "idle"
    /\ \E oid \in OrderIds : orders[oid] = NoOrder
    /\ LET c == NextCall
           call == [IdleCall EXCEPT !.user = u, !.role = role, !.cart_data = cart_data]
       IN IF role \notin CheckoutRoles
          THEN /\ checkout' = [checkout EXCEPT ![c] =
                                 [call EXCEPT !.pc = "done", !.status_code = 403]]
               /\ orders' = orders
          ELSE IF ~TotalsValid(cart_data)
          THEN /\ checkout' = [checkout EXCEPT ![c] =
                                 [call EXCEPT !.pc = "done", !.status_code = 422]]
               /\ orders' = orders
          ELSE IF cart_data.items = <<>>
          THEN /\ checkout' = [checkout EXCEPT ![c] =
                                 [call EXCEPT !.pc = "done", !.status_code = 400]]
               /\ orders' = orders
          ELSE /\ checkout' = [checkout EXCEPT ![c] =
                                 [call EXCEPT !.pc = "await", !.order_id = FreshOrderId]]
               /\ orders' = [orders EXCEPT ![FreshOrderId] =
                               [status |-> PENDING, items |-> cart_data.items,
                                user_identity |-> u,
                                shipping_cost |-> cart_data.shipping_cost,
                                subtotal |-> cart_data.subtotal,
                                total_cost |-> cart_data.total_cost,
                                created_at |-> now]]
    /\ UNCHANGED <<stock, run, carts, cartOp, queue, now, history, cartView>>

\* The outcome of the call of the payment provider and the response
CheckoutAnswer(c, answer) ==
    /\ checkout[c].pc = "await"
    /\ checkout' = [checkout EXCEPT ![c] = [@ EXCEPT !.pc = "done", !.answer = answer,
                                                     !.status_code = StatusOfAnswer(answer)]]
    /\ UNCHANGED <<stock, orders, run, carts, cartOp, queue, now, history, cartView>>

\* ---------------------------------------------------- payment confirmation
\* The hand-off to the worker: process_order.delay(order_id)
NotEnqueued(q, oid) == q
Enqueued(q, oid) == q \cup {oid}

ConfirmPayment(oid, state) ==
    /\ orders[oid] # NoOrder
    /\ orders[oid].status = PENDING
    /\ orders' = [orders EXCEPT ![oid].status =
                    IF state = "SUCCESS" THEN PAID ELSE FAILED]
    /\ queue' = IF state = "SUCCESS" THEN Enqueued(queue, oid) ELSE queue
    /\ UNCHANGED <<stock, run, carts, cartOp, checkout, now, history, cartView>>

\* ----------------------------------------------------------- cart_operation
IdleOp == [pc |-> "idle", user |-> "nobody", barcode |-> "none", action |-> "none",
           quantity |-> 0, product_quantity |-> 0,
           cart_item |-> [found |-> FALSE, quantity |-> 0],
           success |-> FALSE, message |-> "none", cart_total_items |-> 0,
           solo |-> TRUE]

OpActive(h) == cartOp[h].pc \notin {"idle", "done"}

RECURSIVE TotalItems(_)
TotalItems(items) ==
    IF items = <<>> THEN 0 ELSE Head(items).quantity + TotalItems(Tail(items))

\* Index of the first line of items with the barcode, 0 when there is none
FirstLine(items, b) ==
    IF \E n \in DOMAIN items : items[n].barcode = b
    THEN CHOOSE n \in DOMAIN items :
            items[n].barcode = b /\ \A m \in 1..(n-1) : items[m].barcode # b
    ELSE 0

\* The line the handler finds (cart_item): whether there is one (None
\* otherwise) and its quantity
CartItem(items, b) ==
    IF FirstLine(items, b) = 0 THEN [found |-> FALSE, quantity |-> 0]
    ELSE [found |-> TRUE, quantity |-> items[FirstLine(items, b)].quantity]

\* current_cart_quantity: 0 when cart_item is None
LineQuantityOfCart(items, b) == TotalItems(items)
LineQuantity(items, b) == CartItem(items, b).quantity

\* update_one({"items.barcode": b}, {"$inc": {"items.$.quantity": d}}): the first
\* matching line, no effect when no line matches
IncLine(items, b, d) ==
    IF FirstLine(items, b) = 0 THEN items
    ELSE [items EXCEPT ![FirstLine(items, b)].quantity = @ + d]

\* {"$push": {"items": new_item}}, upsert
PushLineOfOne(items, b, q) ==
    Append(items, [barcode |-> b, name |-> NameOf(ProductByBarcode(b)),
                   price |-> PriceOf(ProductByBarcode(b)), quantity |-> 1])
PushLine(items, b, q) ==
    Append(items, [barcode |-> b, name |-> NameOf(ProductByBarcode(b)),
                   price |-> PriceOf(ProductByBarcode(b)), quantity |-> q])

\* {"$pull": {"items": {"barcode": b}}}
PullNothing(items, b) == items
RECURSIVE PullLines(_, _)
PullLines(items, b) ==
    IF items = <<>> THEN <<>>
    ELSE IF Head(items).barcode = b THEN PullLines(Tail(items), b)
    ELSE <<Head(items)>> \o PullLines(Tail(items), b)

NextOp == CHOOSE h \in CartOps :
             cartOp[h].pc = "idle" /\ \A g \in 1..(h-1) : cartOp[g].pc # "idle"

\* 1. find_one on the product
CartLookup(u, b, action, q, limit) ==
    /\ \E h \in 1..limit : cartOp[h].pc = "idle"
    /\ LET h == NextOp
       IN IF b \notin Barcodes
          THEN cartOp' = [cartOp EXCEPT ![h] = [IdleOp EXCEPT
                            !.pc = "done", !.user = u, !.barcode = b,
                            !.action = action, !.quantity = q,
                            !.success = FALSE, !.message = "Unknown barcode",
                            !.cart_total_items = 0]]
          ELSE cartOp' = [g \in CartOps |->
                            IF g = h
                            THEN [IdleOp EXCEPT
                                    !.pc = "read", !.user = u, !.barcode = b,
                                    !.action = action, !.quantity = q,
                                    !.product_quantity = stock[ProductByBarcode(b)],
                                    !.solo = \A x \in CartOps :
                                                ~(OpActive(x) /\ cartOp[x].user = u)]
                            ELSE IF OpActive(g) /\ cartOp[g].user = u
                                 THEN [cartOp[g] EXCEPT !.solo = FALSE]
                                 ELSE cartOp[g]]
    /\ UNCHANGED <<stock, orders, run, carts, checkout, queue, now, history, cartView>>

\* 2. find_one on the cart, the search of the line, 3. the validation
CartRead(h) ==
    /\ cartOp[h].pc = "read"
    /\ LET op == cartOp[h]
           items == carts[op.user]
           current == LineQuantity(items, op.barcode)
       IN cartOp' = [cartOp EXCEPT ![h] =
            IF op.action = "add" /\ op.product_quantity < op.quantity
            THEN [@ EXCEPT !.pc = "done", !.success = FALSE,
                           !.message = "Insufficient stock",
                           !.cart_total_items = TotalItems(items)]
            ELSE IF op.action = "remove" /\ current < op.quantity
            THEN [@ EXCEPT !.pc = "done", !.success = FALSE,
                           !.message = "Not enough items in cart",
                           !.cart_total_items = TotalItems(items)]
            ELSE [@ EXCEPT !.pc = "update", !.cart_item = CartItem(items, op.barcode)]]
    /\ UNCHANGED <<stock, orders, run, carts, checkout, queue, now, history, cartView>>

\* 4. the update_one the handler chose from what it read
CartUpdated(items, op) ==
    IF op.action = "add"
    THEN IF op.cart_item.found
         THEN IncLine(items, op.barcode, op.quantity)
         ELSE PushLine(items, op.barcode, op.quantity)
    ELSE IF op.cart_item.quantity = op.quantity
         THEN PullLines(items, op.barcode)
         ELSE IncLine(items, op.barcode, -op.quantity)

CartUpdateReserving(h) ==
    /\ cartOp[h].pc = "update"
    /\ carts' = [carts EXCEPT ![cartOp[h].user] = CartUpdated(@, cartOp[h])]
    /\ cartOp' = [cartOp EXCEPT ![h].pc = "reread"]
    /\ stock' = [stock EXCEPT ![ProductByBarcode(cartOp[h].barcode)] =
                    IF cartOp[h].action = "add" THEN @ - cartOp[h].quantity
                    ELSE @ + cartOp[h].quantity]
    /\ UNCHANGED <<orders, run, checkout, queue, now, history, cartView>>

CartUpdate(h) ==
    /\ cartOp[h].pc = "update"
    /\ carts' = [carts EXCEPT ![cartOp[h].user] = CartUpdated(@, cartOp[h])]
    /\ cartOp' = [cartOp EXCEPT ![h].pc = "reread"]
    /\ UNCHANGED <<stock, orders, run, checkout, queue, now, history, cartView>>

\* 5. find_one on the updated cart and the response
CartReturn(h) ==
    /\ cartOp[h].pc = "reread"
    /\ cartOp' = [cartOp EXCEPT ![h] = [@ EXCEPT
                    !.pc = "done", !.success = TRUE, !.message = "Cart updated",
                    !.cart_total_items = TotalItems(carts[cartOp[h].user])]]
    /\ UNCHANGED <<stock, orders, run, carts, checkout, queue, now, history, cartView>>

\* ------------------------------------------------------- get_order_history
MaxClock == 1       \* readings of the clock after the start

\* role_required([Role.SHOP_CLIENT, Role.GUEST])
HistoryRoles == {"shop_client", "guest"}

NoHistory == [user |-> "nobody", role |-> "none", status_code |-> 0, body |-> <<>>]

\* The filter of find: {"user_identity": u, "status": {"$ne": PENDING}}
InHistoryAlsoPending(o, u) == o # NoOrder /\ o.user_identity = u
InHistory(o, u) == o # NoOrder /\ o.user_identity = u /\ o.status # PENDING

\* The ways to list the set S of order ids, each once
Listings(S) ==
    {ids \in [1..Cardinality(S) -> S] :
        \A m, n \in DOMAIN ids : m # n => ids[m] # ids[n]}

\* sort("created_at", DESCENDING); the database chooses the order of the
\* documents with the same created_at
SortedAscending(ids) ==
    \A m, n \in DOMAIN ids :
        m < n => orders[ids[m]].created_at <= orders[ids[n]].created_at
SortedDescending(ids) ==
    \A m, n \in DOMAIN ids :
        m < n => orders[ids[m]].created_at >= orders[ids[n]].created_at

\* A document as the response carries it ({'_id': 0}, OrderHistoryItem)
HistoryItem(oid) ==
    [order_id |-> oid, user_identity |-> orders[oid].user_identity,
     status |-> orders[oid].status, created_at |-> orders[oid].created_at,
     items |-> orders[oid].items, shipping_cost |-> orders[oid].shipping_cost,
     subtotal |-> orders[oid].subtotal, total_cost |-> orders[oid].total_cost]

\* The whole request: the role check of the dependency (403), then the query
GetOrderHistory(u, role) ==
    /\ IF role \notin HistoryRoles
       THEN history' = [user |-> u, role |-> role, status_code |-> 403, body |-> <<>>]
       ELSE \E ids \in Listings({oid \in OrderIds : InHistory(orders[oid], u)}) :
               /\ SortedDescending(ids)
               /\ history' = [user |-> u, role |-> role, status_code |-> 200,
                              body |-> [n \in DOMAIN ids |-> HistoryItem(ids[n])]]
    /\ UNCHANGED <<stock, orders, run, carts, cartOp, checkout, queue, now, cartView>>

\* Time passes: a later datetime.utcnow() reads a later value
Tick ==
    /\ now < MaxClock
    /\ now' = now + 1
    /\ UNCHANGED <<stock, orders, run, carts, cartOp, checkout, queue, history, cartView>>

\* ---------------------------------------------------------------- get_cart
IdleView == [pc |-> "idle", user |-> "nobody", cart_items |-> <<>>,
             status_code |-> 0, body |-> <<>>]

\* by_barcode.get(bc): the catalog has a product with the barcode
Resolves(b) == b \in Barcodes

\* merged["quantity"] = max(qty, 0)
ReturnedQuantity(line) == IF line.quantity > 0 THEN line.quantity ELSE 0

\* dict(meta) with the quantity replaced
Merged(line) ==
    [id |-> ProductByBarcode(line.barcode), barcode |-> line.barcode,
     name |-> NameOf(ProductByBarcode(line.barcode)),
     price |-> PriceOf(ProductByBarcode(line.barcode)),
     quantity |-> ReturnedQuantity(line)]

\* The loop over cart_items: a line whose barcode has no product is skipped
RECURSIVE MergedLines(_)
MergedLines(cart_items) ==
    IF cart_items = <<>> THEN <<>>
    ELSE IF ~Resolves(Head(cart_items).barcode) THEN MergedLines(Tail(cart_items))
    ELSE <<Merged(Head(cart_items))>> \o MergedLines(Tail(cart_items))

\* 1. find_one on the cart of the caller; no cart or no line: []
GetCartRead(u) ==
    /\ cartView.pc \in {"idle", "done"}
    /\ cartView' = IF carts[u] = <<>>
                   THEN [IdleView EXCEPT !.pc = "done", !.user = u, !.status_code = 200]
                   ELSE [IdleView EXCEPT !.pc = "products", !.user = u,
                                         !.cart_items = carts[u]]
    /\ UNCHANGED <<stock, orders, run, carts, cartOp, checkout, queue, now, history>>

\* 2. find on the products of the barcodes, the merge and the response
GetCartMerge ==
    /\ cartView.pc = "products"
    /\ cartView' = [cartView EXCEPT !.pc = "done", !.status_code = 200,
                                    !.body = MergedLines(cartView.cart_items)]
    /\ UNCHANGED <<stock, orders, run, carts, cartOp, checkout, queue, now, history>>

\* ----------------------------------------------------------- specification
\* The store after seeding; user u1 has added two of product 1 before
InitCarts == [u \in Users |->
                IF u = "u1" THEN PushLine(<<>>, BarcodeOf(1), 2) ELSE <<>>]

Init ==
    /\ stock = [p \in ProductIds |-> InitStockOf(p)]
    /\ orders = [oid \in OrderIds |-> NoOrder]
    /\ run = [r \in Runs |-> IdleRun]
    /\ carts = InitCarts
    /\ cartOp = [h \in CartOps |-> IdleOp]
    /\ checkout = [c \in Calls |-> IdleCall]
    /\ queue = {}
    /\ now = 0
    /\ history = NoHistory
    /\ cartView = IdleView

OrderSteps ==
    \/ \E oid \in OrderIds, state \in {"SUCCESS", "FAILED"} : ConfirmPayment(oid, state)
    \/ \E r \in Runs : ProcessOrderDecrement(r)
    \/ \E r \in Runs : ProcessOrderMarkFailed(r)
    \/ \E r \in Runs : ProcessOrderRollback(r)
    \/ \E r \in Runs : ProcessOrderComplete(r)

CartSteps ==
    \/ \E h \in CartOps : CartRead(h)
    \/ \E h \in CartOps : CartUpdate(h)
    \/ \E h \in CartOps : CartReturn(h)

CartRequests == (Barcodes \cup {UnknownBarcode}) \X {"add", "remove"} \X (1..MaxQty)

\* The request of a client that declares the catalog's prices, no shipping and
\* the totals that follow
PricedAtCatalog(lines) ==
    [n \in DOMAIN lines |->
        [id |-> lines[n].id, quantity |-> lines[n].quantity, price |-> PriceOf(lines[n].id)]]

CatalogPayload(lines) ==
    [items |-> PricedAtCatalog(lines), shipping_cost |-> 0,
     subtotal |-> CalculatedSubtotal(PricedAtCatalog(lines)),
     total_cost |-> CalculatedSubtotal(PricedAtCatalog(lines))]

\* The order handlers alone; the payment provider answers
OrderNext ==
    \/ \E items \in SeqsUpTo(Item, MaxItems) \ {<<>>} :
          Checkout("u1", "shop_client", CatalogPayload(items), MaxOrders)
    \/ \E c \in Calls : CheckoutAnswer(c, "ok")
    \/ \E oid \in OrderIds : ProcessOrderFetch(oid, MaxRuns)
    \/ OrderSteps

OrderSpec == Init /\ [][OrderNext]_vars

\* The cart handler alone
CartNext ==
    \/ \E u \in Users, rq \in CartRequests : CartLookup(u, rq[1], rq[2], rq[3], MaxCartOps)
    \/ CartSteps

CartSpec == Init /\ [][CartNext]_vars

\* All handlers interleaved, one user
Next ==
    \/ \E items \in SeqsUpTo([id : ProductIds, quantity : 1..JointQty], JointItems) \ {<<>>} :
          Checkout("u1", "shop_client", CatalogPayload(items), JointOrders)
    \/ \E c \in Calls : CheckoutAnswer(c, "ok")
    \/ \E oid \in OrderIds : ProcessOrderFetch(oid, JointRuns)
    \/ OrderSteps
    \/ \E rq \in CartRequests :
          rq[3] <= JointQty /\ CartLookup("u1", rq[1], rq[2], rq[3], JointCartOps)
    \/ CartSteps

Spec == Init /\ [][Next]_vars

\* The requests of checkout: no line or one line of two of product 1, at the
\* catalog's price (10.00) or at a price of the client's (9.00), without or with
\* shipping (5.00), and declared totals that are the computed ones, 0.009 above
\* and 0.01 below
DeclaredItems ==
    {<<>>} \cup {<<[id |-> 1, quantity |-> 2, price |-> pr]>> :
                    pr \in {PriceOf(1), PriceOf(1) - 1000}}

Offsets == {-10, 0, 9}

Payloads ==
    {[items |-> items, shipping_cost |-> sh,
      subtotal |-> CalculatedSubtotal(items) + ds,
      total_cost |-> CalculatedSubtotal(items) + sh + dt] :
        items \in DeclaredItems, sh \in {0, 5000},
        ds \in Offsets, dt \in Offsets}

\* The checkout handler alone, with every outcome of the payment provider's call
CheckoutNext ==
    \/ \E role \in Roles, cart_data \in Payloads :
          Checkout("u1", role, cart_data, MaxOrders)
    \/ \E c \in Calls, answer \in Answers : CheckoutAnswer(c, answer)

CheckoutSpec == Init /\ [][CheckoutNext]_vars

\* The worker fed by the queue alone: process_order runs for the order ids that
\* the payment confirmation handed over, each delivered once
Deliver == \E oid \in queue : ProcessOrderFetch(oid, JointRuns)

WorkerStep(r) ==
    \/ ProcessOrderDecrement(r)
    \/ ProcessOrderMarkFailed(r)
    \/ ProcessOrderRollback(r)
    \/ ProcessOrderComplete(r)

QueueNext ==
    \/ \E items \in SeqsUpTo([id : ProductIds, quantity : 1..JointQty], JointItems) \ {<<>>} :
          Checkout("u1", "shop_client", CatalogPayload(items), JointOrders)
    \/ \E c \in Calls : CheckoutAnswer(c, "ok")
    \/ \E oid \in OrderIds, state \in {"SUCCESS", "FAILED"} : ConfirmPayment(oid, state)
    \/ Deliver
    \/ \E r \in Runs : WorkerStep(r)

\* A worker that is up delivers a queued message and runs a started task on
QueueSpec ==
    /\ Init /\ [][QueueNext]_vars
    /\ WF_vars(Deliver)
    /\ \A r \in Runs : WF_vars(WorkerStep(r))

\* The worker with any delivery pattern (an order_id delivered before the
\* payment, once, or again while or after a run for it) and a worker that runs
\* a started task on
RedeliveryNext ==
    \/ \E items \in SeqsUpTo([id : ProductIds, quantity : 1..JointQty], JointItems) \ {<<>>} :
          Checkout("u1", "shop_client", CatalogPayload(items), JointOrders)
    \/ \E c \in Calls : CheckoutAnswer(c, "ok")
    \/ \E oid \in OrderIds, state \in {"SUCCESS", "FAILED"} : ConfirmPayment(oid, state)
    \/ \E oid \in OrderIds : ProcessOrderFetch(oid, JointRuns)
    \/ \E r \in Runs : WorkerStep(r)

RedeliverySpec ==
    /\ Init /\ [][RedeliveryNext]_vars
    /\ \A r \in Runs : WF_vars(WorkerStep(r))

\* The order history: two users check out, pay or fail to pay, the worker
\* processes the paid orders, time passes or not between two checkouts, and
\* either user asks for the history, as a client or as an admin
HistoryLines ==
    {<<[id |-> 1, quantity |-> 1]>>,
     <<[id |-> 1, quantity |-> 1], [id |-> 2, quantity |-> 2]>>}

HistoryNext ==
    \/ \E u \in Users, items \in HistoryLines :
          Checkout(u, "shop_client", CatalogPayload(items), MaxOrders)
    \/ \E c \in Calls : CheckoutAnswer(c, "ok")
    \/ \E oid \in OrderIds, state \in {"SUCCESS", "FAILED"} : ConfirmPayment(oid, state)
    \/ Deliver
    \/ \E r \in Runs : WorkerStep(r)
    \/ Tick
    \/ \E u \in Users, role \in {"shop_client", "admin"} : GetOrderHistory(u, role)

HistorySpec == Init /\ [][HistoryNext]_vars

\* The cart view. User u1 starts with a cart of up to two lines: of product 1,
\* one to three of it, added at today's price or at an older one (9.00), and of a
\* product that the catalog has lost since; user u2 holds one of product 2
ViewLines ==
    {[barcode |-> BarcodeOf(1), name |-> NameOf(1), price |-> pr, quantity |-> q] :
        pr \in {PriceOf(1), PriceOf(1) - 1000}, q \in 1..(MaxQty + 1)}
    \cup {[barcode |-> UnknownBarcode, name |-> "nX", price |-> 1000, quantity |-> 2]}

ViewCarts ==
    {items \in SeqsUpTo(ViewLines, 2) :
        \A m, n \in DOMAIN items : m # n => items[m].barcode # items[n].barcode}

ViewInit ==
    /\ stock = [p \in ProductIds |-> InitStockOf(p)]
    /\ orders = [oid \in OrderIds |-> NoOrder]
    /\ run = [r \in Runs |-> IdleRun]
    /\ \E items \in ViewCarts :
          carts = [u \in Users |->
                     IF u = "u1" THEN items ELSE PushLine(<<>>, BarcodeOf(2), 1)]
    /\ cartOp = [h \in CartOps |-> IdleOp]
    /\ checkout = [c \in Calls |-> IdleCall]
    /\ queue = {}
    /\ now = 0
    /\ history = NoHistory
    /\ cartView = IdleView

\* u1 adds and removes product 1 while either user asks for the cart
ViewNext ==
    \/ \E action \in {"add", "remove"}, q \in 1..MaxQty :
          CartLookup("u1", BarcodeOf(1), action, q, MaxCartOps)
    \/ CartSteps
    \/ \E u \in Users : GetCartRead(u)
    \/ GetCartMerge

ViewSpec == ViewInit /\ [][ViewNext]_vars

\* ------------------------------------------------------------- accounting
\* The lines run r has decremented and not re-incremented
Held(r) ==
    IF run[r].pc = "rollback"
    THEN SubSeq(run[r].updates, run[r].k, Len(run[r].updates))
    ELSE IF run[r].pc = "done" /\ run[r].failed # 0 THEN <<>>
    ELSE run[r].updates

RECURSIVE SumOver(_, _, _)
SumOver(S, oid, p) ==
    IF S = {} THEN 0
    ELSE LET r == CHOOSE x \in S : TRUE
         IN (IF run[r].order_id = oid THEN QtyOf(Held(r), p) ELSE 0)
            + SumOver(S \ {r}, oid, p)

\* What the runs for order oid hold of product p
NetCommitted(oid, p) == SumOver(Runs, oid, p)

ReturnsFromLoop(r) == Active(r) /\ run'[r].pc = "done"

\* ------------------------------------------------------------------ claims
\* C1: in every reachable state, under any interleaving of cart_operation,
\* checkout and process_order runs, every product's stock is >= 0.
StockNeverNegative == \A p \in ProductIds : stock[p] >= 0

\* C1 witness: a run is refused a decrement that the stock cannot cover, after
\* the stock of a product has been taken down to 0.
StockRefusedWitness ==
    \E r \in Runs :
        /\ run[r].pc = "markfailed"
        /\ stock[run[r].items[run[r].failed].id] < run[r].items[run[r].failed].quantity
        /\ \E p \in ProductIds : stock[p] = 0 /\ stock[p] < InitStockOf(p)

\* C2: however often process_order is delivered for one order, and however the
\* runs overlap, the runs for that order hold of each product at most the
\* order's quantity of it: the order is committed against stock at most once.
OrderCommittedAtMostOnce ==
    \A oid \in OrderIds, p \in ProductIds :
        NetCommitted(oid, p) <= QtyOf(orders[oid].items, p)

\* C3: once an order's status is completed or failed it never changes again.
TerminalStatusNeverChanges ==
    [][\A oid \in OrderIds :
          orders[oid].status \in {COMPLETED, FAILED}
             => orders'[oid].status = orders[oid].status]_vars

\* C4: a run on a paid order, with no other run in progress, that is refused a
\* decrement returns with every product's stock as it was before the run, the
\* order failed, and a failure result naming the item that was refused.
RollbackCorrect ==
    [][\A r \in Runs :
          (ReturnsFromLoop(r) /\ run'[r].solo /\ run'[r].failed # 0)
             => /\ stock' = run[r].stock0
                /\ orders'[run[r].order_id].status = FAILED
                /\ run'[r].result =
                      [status |-> "failure", message |-> "Insufficient stock for",
                       item |-> run[r].items[run[r].failed].id]]_vars

\* C4 witness: a run alone has re-incremented what it had decremented and
\* returned.
RollbackWitness ==
    \E r \in Runs :
        /\ run[r].pc = "done" /\ run[r].solo /\ run[r].failed # 0
        /\ run[r].updates # <<>>
        /\ stock = run[r].stock0
        /\ orders[run[r].order_id].status = FAILED

\* C5: a run on a paid order, with no other run in progress, whose decrements
\* all succeed returns with the order completed and each product's stock lower
\* than before the run by exactly the order's quantity of that product.
ReservationCorrect ==
    [][\A r \in Runs :
          (ReturnsFromLoop(r) /\ run'[r].solo /\ run'[r].failed = 0)
             => /\ orders'[run[r].order_id].status = COMPLETED
                /\ \A p \in ProductIds :
                      stock'[p] = run[r].stock0[p] - QtyOf(run[r].items, p)]_vars

\* C5 witness: a run alone has completed an order of two of product 1 and none
\* of product 2.
ReservationWitness ==
    \E r \in Runs :
        /\ run[r].pc = "done" /\ run[r].solo /\ run[r].result = SuccessResult
        /\ QtyOf(run[r].items, 1) = 2 /\ QtyOf(run[r].items, 2) = 0
        /\ stock[1] = run[r].stock0[1] - 2 /\ stock[2] = run[r].stock0[2]
        /\ orders[run[r].order_id].status = COMPLETED

\* C6: process_order invoked for an order that is unknown or not paid returns a
\* failure result at once and changes no stock and no order; and an order that
\* a run has worked on is not paid once that run has returned, so a further
\* invocation is such a no-op.
NoOpUnlessPaid ==
    [][/\ \A r \in Runs, oid \in OrderIds :
             (/\ run[r].pc = "idle" /\ run'[r].pc # "idle" /\ run'[r].order_id = oid
              /\ (orders[oid] = NoOrder \/ orders[oid].status # PAID))
                => /\ stock' = stock
                   /\ orders' = orders
                   /\ run'[r].pc = "done"
                   /\ run'[r].result = NotPaidResult
       /\ \A r \in Runs :
             (run'[r].pc = "done" /\ run'[r].result # NotPaidResult)
                => orders'[run'[r].order_id].status \in {COMPLETED, FAILED}]_vars

\* C6 witness: process_order was invoked again on an order that an earlier run
\* had completed; the stock is what that run left.
NoOpWitness ==
    \E r1, r2 \in Runs :
          /\ r1 < r2 /\ run[r1].order_id = run[r2].order_id
          /\ run[r1].pc = "done" /\ run[r1].result = SuccessResult
          /\ run[r2].pc = "done" /\ run[r2].result = NotPaidResult
          /\ orders[run[r2].order_id].status = COMPLETED
          /\ \A p \in ProductIds :
                stock[p] = InitStockOf(p) - QtyOf(run[r1].items, p)

\* C7: no checkout, payment confirmation or process_order step moves an order
\* whose status is completed or failed back to pending or paid.
StatusNeverMovesBack ==
    [][\A oid \in OrderIds :
          orders[oid].status \in {COMPLETED, FAILED}
             => orders'[oid].status \notin {PENDING, PAID, NoOrder.status}]_vars

\* C7 witness: two overlapping runs for one order have both written its status,
\* one failed and one completed.
StatusRewrittenWitness ==
    \E r1, r2 \in Runs :
        /\ r1 # r2 /\ run[r1].order_id = run[r2].order_id
        /\ run[r1].pc = "done" /\ run[r1].result = SuccessResult
        /\ run[r2].pc = "done" /\ run[r2].failed # 0
        /\ orders[run[r1].order_id].status \in {COMPLETED, FAILED}

\* ------------------------------------------------------------ cart claims
\* cart_operation run with nothing between its read of the cart and its update
SerialUpdated(items, op) ==
    CartUpdated(items, [op EXCEPT !.cart_item = CartItem(items, op.barcode)])

\* Whether the operation passes the validation on this cart (the stock check of
\* an add does not read the cart)
SerialValid(items, op) ==
    op.action = "remove" => LineQuantity(items, op.barcode) >= op.quantity

\* The carts that applying a then b, one after the other, can leave
SerialPair(items, a, b) ==
    IF SerialValid(items, a) /\ SerialValid(SerialUpdated(items, a), b)
    THEN {SerialUpdated(SerialUpdated(items, a), b)}
    ELSE {}

\* The carts that the successful ones of a and b can leave in some serial order
SerialOutcomes(items, a, b) ==
    IF a.success /\ b.success
    THEN SerialPair(items, a, b) \cup SerialPair(items, b, a)
    ELSE IF a.success THEN (IF SerialValid(items, a) THEN {SerialUpdated(items, a)} ELSE {})
    ELSE IF b.success THEN (IF SerialValid(items, b) THEN {SerialUpdated(items, b)} ELSE {})
    ELSE {items}

\* C8: when two cart_operation calls of one user on one barcode overlap (and
\* are the only calls on that cart), the cart they leave is the result of
\* applying the successful ones in some serial order.
NoLostCartUpdate ==
    \A h1, h2 \in CartOps :
        (/\ h1 < h2
         /\ cartOp[h1].pc = "done" /\ cartOp[h2].pc = "done"
         /\ cartOp[h1].user = cartOp[h2].user
         /\ cartOp[h1].barcode = cartOp[h2].barcode
         /\ ~cartOp[h1].solo /\ ~cartOp[h2].solo
         /\ \A h \in CartOps \ {h1, h2} :
               cartOp[h].pc = "idle" \/ cartOp[h].user # cartOp[h1].user)
            => carts[cartOp[h1].user]
                  \in SerialOutcomes(InitCarts[cartOp[h1].user], cartOp[h1], cartOp[h2])

\* C9: in every reachable state each cart holds at most one line per barcode.
CartLineUnique ==
    \A u \in Users : \A m, n \in DOMAIN carts[u] :
        m # n => carts[u][m].barcode # carts[u][n].barcode

\* C10: in every reachable state every stored cart line has quantity > 0.
CartQuantityPositive ==
    \A u \in Users : \A n \in DOMAIN carts[u] : carts[u][n].quantity > 0

\* C11: a cart_operation that returns success=false leaves every cart and every
\* product's stock unchanged, and it returns success=false for an unknown
\* barcode, for an add of more than the product's stock and for a remove of
\* more than the quantity of the user's line for the barcode (0 when there is
\* no line); no call that has written to the cart returns success=false.
FailedCartOpChangesNothing ==
    [][\A h \in CartOps :
          LET op == cartOp[h]
              after == cartOp'[h]
          IN /\ (op.pc # "done" /\ after.pc = "done" /\ ~after.success)
                    => (carts' = carts /\ stock' = stock)
             /\ (op.pc = "idle" /\ after.pc # "idle")
                    => /\ after.barcode \notin Barcodes
                          => (after.pc = "done" /\ ~after.success)
                       /\ after.barcode \in Barcodes
                          => after.product_quantity = stock[ProductByBarcode(after.barcode)]
             /\ (/\ op.pc = "read" /\ after.pc # "read"
                 /\ \/ op.action = "add" /\ op.product_quantity < op.quantity
                    \/ /\ op.action = "remove"
                       /\ CartItem(carts[op.user], op.barcode).quantity < op.quantity)
                    => (after.pc = "done" /\ ~after.success)
             /\ (op.pc \in {"update", "reread"} /\ after.pc = "done")
                    => after.success]_vars

\* C11 witness: an add of more than the stock and a remove of more than the line
\* have been refused, and the carts and the stock are what they were.
FailedCartOpWitness ==
    /\ \E h \in CartOps :
          /\ cartOp[h].pc = "done" /\ ~cartOp[h].success
          /\ cartOp[h].action = "add" /\ cartOp[h].barcode \in Barcodes
          /\ stock[ProductByBarcode(cartOp[h].barcode)] < cartOp[h].quantity
    /\ \E h \in CartOps :
          /\ cartOp[h].pc = "done" /\ ~cartOp[h].success
          /\ cartOp[h].action = "remove" /\ cartOp[h].barcode \in Barcodes
          /\ CartItem(carts[cartOp[h].user], cartOp[h].barcode).quantity
                < cartOp[h].quantity
    /\ carts = InitCarts
    /\ stock = [p \in ProductIds |-> InitStockOf(p)]

\* The cart that an add of q of barcode b makes of old: the line of the barcode
\* higher by q, or a new line of q with the catalog's name and price; the
\* other lines as they were
AddPost(old, new, b, q) ==
    \/ \E n \in DOMAIN old :
          old[n].barcode = b /\ new = [old EXCEPT ![n].quantity = @ + q]
    \/ /\ \A n \in DOMAIN old : old[n].barcode # b
       /\ new = Append(old, [barcode |-> b, name |-> NameOf(ProductByBarcode(b)),
                             price |-> PriceOf(ProductByBarcode(b)), quantity |-> q])

\* C12: an add of q of a known barcode whose stock is >= q, with no other
\* operation on the user's cart in progress, passes the validation, leaves the
\* line of the barcode with old + q (a new line of q with the catalog's name and
\* price when there was none), every other line unchanged, and returns
\* success=true.
SoloAddCorrect ==
    [][\A h \in CartOps :
          LET op == cartOp[h]
              after == cartOp'[h]
          IN (op.action = "add" /\ after.solo /\ after.pc # op.pc)
                => /\ (op.pc = "read" /\ stock[ProductByBarcode(op.barcode)] >= op.quantity)
                      => after.pc = "update"
                   /\ op.pc = "update"
                      => AddPost(carts[op.user], carts'[op.user], op.barcode, op.quantity)
                   /\ op.pc = "reread"
                      => (after.pc = "done" /\ after.success)]_vars

\* C12 witness: adds alone have raised the line of u1 from 2 to 3 and given u2 a
\* first line of 2 with the catalog's name and price.
SoloAddWitness ==
    /\ \A h \in CartOps :
          /\ cartOp[h].pc = "done" /\ cartOp[h].solo /\ cartOp[h].success
          /\ cartOp[h].action = "add"
    /\ carts["u1"] = <<[barcode |-> "b1", name |-> "n1", price |-> PriceOf(1),
                        quantity |-> 3]>>
    /\ carts["u2"] = <<[barcode |-> "b1", name |-> "n1", price |-> PriceOf(1),
                        quantity |-> 2]>>

\* The cart that a remove of q of barcode b makes of old, which holds one line
\* of the barcode: the line lower by q, or gone when its quantity was q; the
\* other lines as they were
RemovePost(old, new, b, q) ==
    \E n \in DOMAIN old :
        /\ old[n].barcode = b
        /\ IF old[n].quantity > q
           THEN new = [old EXCEPT ![n].quantity = @ - q]
           ELSE new = SubSeq(old, 1, n - 1) \o SubSeq(old, n + 1, Len(old))

CartTotalReported ==
    \A h \in CartOps :
        (cartOp[h].pc = "done" /\ \A g \in CartOps \ {h} : cartOp[g].pc = "idle")
           => cartOp[h].cart_total_items = TotalItems(carts[cartOp[h].user])

\* ---------------------------------------------------------- checkout claims
\* Sum of price x quantity over the declared items
RECURSIVE DeclaredSum(_)
DeclaredSum(items) ==
    IF items = <<>> THEN 0
    ELSE Head(items).price * Head(items).quantity + DeclaredSum(Tail(items))

\* The declared subtotal is less than 0.01 from the sum, and the declared total
\* less than 0.01 from the sum plus the declared shipping
TotalsAgree(p) ==
    /\ p.subtotal - DeclaredSum(p.items) \in (-9)..9
    /\ p.total_cost - (DeclaredSum(p.items) + p.shipping_cost) \in (-9)..9

\* C15: a checkout call of a permitted role creates an order only when the
\* declared subtotal and total agree with the recomputed ones within the
\* tolerance, the order holding the declared values as they were sent; when
\* they do not agree it answers with the validation error 422 and creates no
\* order.
TotalIntegrity ==
    [][\A c \in Calls :
          LET after == checkout'[c]
              p == after.cart_data
          IN (checkout[c].pc = "idle" /\ after.pc # "idle"
              /\ after.role \in {"shop_client", "guest"})
                => /\ after.pc = "await"
                      => /\ TotalsAgree(p)
                         /\ orders[after.order_id] = NoOrder
                         /\ orders'[after.order_id].items = p.items
                         /\ orders'[after.order_id].shipping_cost = p.shipping_cost
                         /\ orders'[after.order_id].subtotal = p.subtotal
                         /\ orders'[after.order_id].total_cost = p.total_cost
                   /\ ~TotalsAgree(p)
                      => (after.pc = "done" /\ after.status_code = 422 /\ orders' = orders)
                   /\ (TotalsAgree(p) /\ p.items # <<>>) => after.pc = "await"]_vars

\* C15 witness: two of a product at 10.00 with shipping 5.00 have been accepted
\* with subtotal 20.00 and total 25.00 and stored so, and rejected with
\* subtotal 19.99.
TotalIntegrityWitness ==
    \E c1, c2 \in Calls :
        LET items == <<[id |-> 1, quantity |-> 2, price |-> 10000]>>
            good == [items |-> items, shipping_cost |-> 5000, subtotal |-> 20000,
                     total_cost |-> 25000]
        IN /\ checkout[c1].pc # "idle" /\ checkout[c1].cart_data = good
           /\ checkout[c1].order_id \in OrderIds
           /\ orders[checkout[c1].order_id].subtotal = 20000
           /\ orders[checkout[c1].order_id].total_cost = 25000
           /\ checkout[c2].pc = "done" /\ checkout[c2].status_code = 422
           /\ checkout[c2].role = "shop_client"
           /\ checkout[c2].cart_data = [good EXCEPT !.subtotal = 19990]
           /\ checkout[c2].order_id = 0

\* C16: a checkout call rejected for the caller's role (403), for an empty cart
\* (400) or for a mismatch of the totals (422) creates no order and changes no
\* order, cart or stock; and a role other than shop_client and guest, empty
\* items and a mismatch are each rejected so.
RejectedCheckoutChangesNothing ==
    [][\A c \in Calls :
          LET after == checkout'[c]
              p == after.cart_data
          IN (checkout[c].pc = "idle" /\ after.pc # "idle")
                => /\ after.role \notin {"shop_client", "guest"}
                      => (after.pc = "done" /\ after.status_code = 403)
                   /\ (after.role \in {"shop_client", "guest"} /\ p.items = <<>>)
                      => (after.pc = "done" /\ after.status_code \in {400, 422})
                   /\ (after.role \in {"shop_client", "guest"} /\ ~TotalsAgree(p))
                      => (after.pc = "done" /\ after.status_code = 422)
                   /\ (after.pc = "done" /\ after.status_code \in {400, 403, 422})
                      => /\ orders' = orders /\ carts' = carts /\ stock' = stock
                         /\ queue' = queue
                         /\ after.order_id = 0]_vars

\* C16 witness: after an order was created, calls were rejected and the order
\* is the only one and as it was created.
RejectedCheckoutWitness ==
    \E c1, c2 \in Calls :
        /\ checkout[c1].pc = "done" /\ checkout[c1].status_code = 200
        /\ checkout[c2].pc = "done" /\ checkout[c2].status_code = 403
        /\ c1 < c2
        /\ orders[checkout[c1].order_id].status = PENDING
        /\ orders[checkout[c1].order_id].items = checkout[c1].cart_data.items
        /\ Cardinality({oid \in OrderIds : orders[oid] # NoOrder}) = 1

\* C17: while a checkout call waits for the payment provider its order is in the
\* store, pending; and when the call has failed to connect, timed out or got
\* an error code, the response is 503 and the order is still there, pending, as
\* declared.
PendingOrderSurvives ==
    \A c \in Calls :
        LET call == checkout[c]
            order == orders[call.order_id]
        IN /\ call.pc = "await"
              => (call.order_id \in OrderIds /\ order.status = PENDING)
           /\ (call.pc = "done" /\ call.answer \in {"connect_error", "timeout", "error_code"})
              => /\ call.status_code = 503
                 /\ call.order_id \in OrderIds
                 /\ order.status = PENDING
                 /\ order.items = call.cart_data.items
                 /\ order.total_cost = call.cart_data.total_cost

\* C17 witness: one call has timed out and another got an error code; both
\* orders are in the store, pending.
PendingOrderWitness ==
    \E c1, c2 \in Calls :
        /\ checkout[c1].pc = "done" /\ checkout[c1].answer = "timeout"
        /\ checkout[c2].pc = "done" /\ checkout[c2].answer = "error_code"
        /\ checkout[c1].status_code = 503 /\ checkout[c2].status_code = 503
        /\ orders[checkout[c1].order_id].status = PENDING
        /\ orders[checkout[c2].order_id].status = PENDING

\* C18: when the payment provider answers with a non-2xx HTTP status, checkout
\* responds with 503 (service unavailable) and the pending order stays.
Non2xxIsUnavailable ==
    \A c \in Calls :
        (checkout[c].pc = "done" /\ checkout[c].answer = "http_status")
           => /\ checkout[c].status_code = 503
              /\ orders[checkout[c].order_id].status = PENDING

\* C19: every line of every stored order carries the catalog's price of its
\* product.
PriceIsCatalogPrice ==
    \A oid \in OrderIds : \A n \in DOMAIN orders[oid].items :
        orders[oid].items[n].price = PriceOf(orders[oid].items[n].id)

\* ----------------------------------------------------------- queue claims
\* C20: the confirmation that makes a pending order paid puts its order_id in
\* the queue in the same step, and every paid order is then processed: a
\* process_order run for it passes the guard and returns.
PaidOrderIsProcessed ==
    /\ [][\A oid \in OrderIds :
             (orders[oid].status = PENDING /\ orders'[oid].status = PAID)
                => oid \in queue']_vars
    /\ \A oid \in OrderIds :
          (orders[oid].status = PAID)
             ~> (\E r \in Runs :
                    /\ run[r].order_id = oid /\ run[r].pc = "done"
                    /\ run[r].result.status \in {"success", "failure"}
                    /\ run[r].result # NotPaidResult)

\* C20 witness: an order created by checkout and confirmed as paid was taken
\* from the queue and completed by a run.
PaidOrderProcessedWitness ==
    \E oid \in OrderIds, r \in Runs, c \in Calls :
        /\ checkout[c].order_id = oid /\ checkout[c].pc = "done"
        /\ orders[oid].status = COMPLETED
        /\ oid \notin queue
        /\ run[r].order_id = oid /\ run[r].pc = "done" /\ run[r].result = SuccessResult

\* ---------------------------------------------------------- worker claims
\* C21: with a worker that keeps running a started task, every process_order
\* run that passed the guard (the order was paid) returns, and once it has
\* returned the order is completed or failed, not paid.
RunTerminates ==
    /\ \A r \in Runs : Active(r) ~> (run[r].pc = "done")
    /\ [](\A r \in Runs :
            (run[r].pc = "done" /\ run[r].result # NotPaidResult)
               => orders[run[r].order_id].status \in {COMPLETED, FAILED})

\* C21 witness: two runs for one paid order have overlapped and both returned,
\* one after a rollback; the order is completed or failed.
RunTerminatesWitness ==
    \E r1, r2 \in Runs :
        /\ r1 # r2 /\ run[r1].order_id = run[r2].order_id
        /\ run[r1].pc = "done" /\ run[r1].result = SuccessResult /\ ~run[r1].solo
        /\ run[r2].pc = "done" /\ run[r2].failed # 0 /\ run[r2].updates # <<>>
        /\ orders[run[r1].order_id].status \in {COMPLETED, FAILED}

\* C22: no step of cart_operation and no step of checkout changes a product's
\* stock; every step that changes a stock is a conditional decrement or a
\* re-increment of a process_order run.
StockChangesOnlyInWorker ==
    [][/\ (cartOp' # cartOp \/ carts' # carts \/ checkout' # checkout) => stock' = stock
       /\ stock' # stock
             => \E r \in Runs :
                   /\ run[r].pc \in {"loop", "rollback"}
                   /\ run'[r] # run[r]
                   /\ \A q \in Runs \ {r} : run'[q] = run[q]]_vars

\* C22 witness: an add to the cart has succeeded on a reading of the stock that
\* a completed order has since lowered; the stock differs from the initial one
\* by that order's quantities only.
AdvisoryCheckWitness ==
    \E h \in CartOps, c \in Calls, r \in Runs :
        /\ cartOp[h].pc = "done" /\ cartOp[h].success /\ cartOp[h].action = "add"
        /\ cartOp[h].barcode = "b1"
        /\ checkout[c].pc = "done" /\ checkout[c].status_code = 200
        /\ run[r].pc = "done" /\ run[r].result = SuccessResult
        /\ run[r].order_id = checkout[c].order_id
        /\ \A q \in Runs \ {r} : run[q].pc = "idle"
        /\ \A p \in ProductIds :
              stock[p] = InitStockOf(p) - QtyOf(orders[run[r].order_id].items, p)
        /\ stock[1] < cartOp[h].product_quantity

\* C23: in every state each order holds the items (with their prices and
\* quantities), subtotal, shipping_cost, total_cost and user_identity that the
\* checkout call which created it persisted, under the order_id that call was
\* given; only its status moves.
OrderFieldsImmutable ==
    /\ \A c \in Calls :
          checkout[c].order_id # 0
             => LET order == orders[checkout[c].order_id]
                    sent == checkout[c].cart_data
                IN /\ order # NoOrder
                   /\ order.items = sent.items
                   /\ order.subtotal = sent.subtotal
                   /\ order.shipping_cost = sent.shipping_cost
                   /\ order.total_cost = sent.total_cost
                   /\ order.user_identity = checkout[c].user
    /\ \A c, d \in Calls :
          (c # d /\ checkout[c].order_id # 0) => checkout[c].order_id # checkout[d].order_id

\* C23 witness: one order has gone from pending to paid to completed and
\* another to failed by a refused run, and both hold what was sent.
OrderFieldsWitness ==
    \E c, d \in Calls :
        /\ checkout[c].order_id # 0 /\ checkout[d].order_id # 0
        /\ orders[checkout[c].order_id].status = COMPLETED
        /\ orders[checkout[d].order_id].status = FAILED
        /\ \E r \in Runs : run[r].order_id = checkout[d].order_id /\ run[r].failed # 0
        /\ orders[checkout[c].order_id].items = checkout[c].cart_data.items
        /\ orders[checkout[d].order_id].items = checkout[d].cart_data.items
        /\ Len(checkout[d].cart_data.items) = 2

\* C26: no order is failed while a run that was refused a decrement for it
\* still has decrements to re-increment.
RestoredBeforeFailed ==
    \A r \in Runs :
        (run[r].failed # 0 /\ orders[run[r].order_id].status = FAILED)
           => Held(r) = <<>>

\* The product ids of the lines run r has attempted to decrement, in the order
\* of the attempts
Attempts(r) ==
    LET n == IF run[r].failed # 0 THEN run[r].failed
             ELSE IF run[r].pc = "loop" THEN run[r].i - 1
             ELSE Len(run[r].items)
    IN [k \in 1..n |-> run[r].items[k].id]

\* Product a is attempted before product b in the sequence of ids
Before(ids, a, b) ==
    \E m, n \in DOMAIN ids :
        /\ m < n /\ ids[m] = a /\ ids[n] = b
        /\ \A k \in 1..(n-1) : ids[k] # b

\* C27: any two runs attempt the products that both orders contain in the same
\* relative order: no run attempts A before B while another attempts B before A.
DecrementOrderFixed ==
    \A r1, r2 \in Runs : \A a, b \in ProductIds :
        ~(Before(Attempts(r1), a, b) /\ Before(Attempts(r2), b, a))

\* The stock before any run covers the order's quantities
Fulfillable(items) == \A p \in ProductIds : QtyOf(items, p) <= InitStockOf(p)

\* C28: when the only two runs are for two different paid orders and the stock
\* covers at least one of the orders in full, they do not both end refused.
NotBothRefused ==
    \A r1, r2 \in Runs :
        (/\ r1 # r2 /\ run[r1].order_id # run[r2].order_id
         /\ run[r1].pc = "done" /\ run[r2].pc = "done"
         /\ run[r1].failed # 0 /\ run[r2].failed # 0
         /\ \A q \in Runs \ {r1, r2} : run[q].pc = "idle"
         /\ (Fulfillable(run[r1].items) \/ Fulfillable(run[r2].items)))
           => FALSE

RECURSIVE HeldBy(_, _)
HeldBy(S, p) ==
    IF S = {} THEN 0
    ELSE LET r == CHOOSE x \in S : TRUE
         IN QtyOf(Held(r), p) + HeldBy(S \ {r}, p)

\* C29: in every state each product's stock is its initial value less what
\* the runs have decremented and not re-incremented, so never more than the
\* initial value: a rollback gives back what its own run took, no more.
StockNeverExceedsInitial ==
    \A p \in ProductIds :
        /\ stock[p] <= InitStockOf(p)
        /\ stock[p] = InitStockOf(p) - HeldBy(Runs, p)

\* C29 witness: two runs, for the same order or not, have each decremented,
\* been refused and rolled back; the stock is the initial one.
StockRestoredWitness ==
    \E r1, r2 \in Runs :
        /\ r1 # r2
        /\ run[r1].pc = "done" /\ run[r1].failed # 0 /\ run[r1].updates # <<>>
        /\ run[r2].pc = "done" /\ run[r2].failed # 0 /\ run[r2].updates # <<>>
        /\ \A p \in ProductIds : stock[p] = InitStockOf(p)

RECURSIVE CompletedQty(_, _)
CompletedQty(S, p) ==
    IF S = {} THEN 0
    ELSE LET oid == CHOOSE x \in S : TRUE
         IN (IF orders[oid].status = COMPLETED THEN QtyOf(orders[oid].items, p) ELSE 0)
            + CompletedQty(S \ {oid}, p)

\* C30: whenever no run is in progress, the initial stock of each product less
\* its current stock is the sum of its quantities over the completed orders.
StockConservation ==
    (\A r \in Runs : ~Active(r))
       => \A p \in ProductIds :
             InitStockOf(p) - stock[p] = CompletedQty(OrderIds, p)

\* C24: get_order_history returns exactly the orders of the caller that are not
\* pending (the paid, completed and failed ones), each once and as stored, from
\* the newest created_at to the oldest; no order of another user and no pending
\* order is in the response.
HistoryCorrect ==
    [][\A u \in Users, role \in HistoryRoles :
         GetOrderHistory(u, role) =>
            LET body == history'.body
                listed == {body[n].order_id : n \in DOMAIN body}
            IN /\ history'.status_code = 200
               /\ listed = {oid \in OrderIds :
                              /\ orders[oid] # NoOrder
                              /\ orders[oid].user_identity = u
                              /\ orders[oid].status \in {PAID, COMPLETED, FAILED}}
               /\ Len(body) = Cardinality(listed)
               /\ \A n \in DOMAIN body :
                     LET o == orders[body[n].order_id]
                     IN /\ body[n].user_identity = u
                        /\ body[n].status = o.status /\ body[n].status # PENDING
                        /\ body[n].items = o.items
                        /\ body[n].total_cost = o.total_cost
                        /\ body[n].created_at = o.created_at
               /\ \A m, n \in DOMAIN body :
                     m < n => body[m].created_at >= body[n].created_at]_vars

\* A history of two orders with different statuses, the one created later first
HistoryWitness ==
    /\ history.status_code = 200
    /\ Len(history.body) = 2
    /\ history.body[1].created_at > history.body[2].created_at
    /\ history.body[1].status # history.body[2].status

\* C25: get_cart reads the cart of the caller and returns one record per stored
\* line whose barcode resolves in the catalog, in the order of the lines, with
\* the catalog's name and price and the quantity of the line; the other lines
\* are left out and the response is 200; no step of the call changes a cart or
\* the stock of a product.
GetCartCorrect ==
    [][/\ \A u \in Users :
            GetCartRead(u) =>
               /\ carts' = carts /\ stock' = stock
               /\ cartView'.user = u
               /\ cartView'.pc = "products" => cartView'.cart_items = carts[u]
               /\ cartView'.pc = "done" =>
                     carts[u] = <<>> /\ cartView'.body = <<>> /\ cartView'.status_code = 200
       /\ GetCartMerge =>
            LET lines == SelectSeq(cartView.cart_items,
                                   LAMBDA line : line.barcode \in Barcodes)
                body == cartView'.body
            IN /\ carts' = carts /\ stock' = stock
               /\ cartView'.status_code = 200
               /\ Len(body) = Len(lines)
               /\ \A n \in DOMAIN lines :
                     /\ body[n].barcode = lines[n].barcode
                     /\ body[n].name = NameOf(ProductByBarcode(lines[n].barcode))
                     /\ body[n].price = PriceOf(ProductByBarcode(lines[n].barcode))
                     /\ body[n].quantity = lines[n].quantity]_vars

====
